---- MODULE Spec2Model ----
(***************************************************************************)
(* Model of the movie_pipeline DAG (src/movie_dags_pipeline.py): eight     *)
(* tasks that write, transform, merge, load, chart and delete CSV files    *)
(* in one output directory and one Postgres table.                         *)
(*                                                                         *)
(* Numbers with a fractional part (the ratings) are kept in tenths, so     *)
(* 8.5 is the integer 85; their text form has exactly one decimal digit.   *)
(***************************************************************************)
EXTENDS Integers, Sequences, FiniteSets, TLC

VARIABLES
    fs,           \* the files below OUTPUT_DIR: path -> content
    dirs,         \* the subdirectories of OUTPUT_DIR
    state,        \* the state of every task instance of the current DAG run
    tries,        \* the attempts of every task in the current DAG run
    xcom,         \* the path every task returned in the current DAG run
    load_result,  \* the row count load_to_postgres returned, -1 before
    db,           \* the committed content of the database
    fault,        \* where the last attempt of load_to_postgres broke
    created,      \* the paths written by the current DAG run
    run           \* the number of the current DAG run

vars == <<fs, dirs, state, tries, xcom, load_result, db, fault, created, run>>

(***************************************************************************)
(* Bounds of the model.                                                    *)
(***************************************************************************)
\* DAG runs that are triggered against the same directory and database
MaxRuns == 2
\* rows of an arbitrary movies CSV / ratings CSV given to the transforms
MaxMovies == 2
MaxRatings == 2

(***************************************************************************)
(* Configuration.                                                          *)
(***************************************************************************)
OUTPUT_DIR == "/opt/airflow/data/movies"
TARGET_TABLE == "movies_final"
SCHEMA == "week9_movies"
\* default_args["retries"]
retries == 1

(***************************************************************************)
(* Text: cells of a CSV file are strings; numbers are parsed from and      *)
(* formatted to their decimal text.                                        *)
(***************************************************************************)
Char(s, i) == SubSeq(s, i, i)

DigitSet == {"0", "1", "2", "3", "4", "5", "6", "7", "8", "9"}

DigitVal(c) == CHOOSE d \in 0..9 : Char("0123456789", d + 1) = c

IsDigits(s) == Len(s) >= 1 /\ \A i \in 1..Len(s) : Char(s, i) \in DigitSet

RECURSIVE DigitsVal(_)
DigitsVal(s) ==
    IF Len(s) = 0 THEN 0
    ELSE 10 * DigitsVal(SubSeq(s, 1, Len(s) - 1)) + DigitVal(Char(s, Len(s)))

IsNegText(s) == Len(s) >= 2 /\ Char(s, 1) = "-"

Unsigned(s) == IF IsNegText(s) THEN SubSeq(s, 2, Len(s)) ELSE s

IsIntText(s) == IsDigits(Unsigned(s))

\* int(text)
ParseInt(s) == IF IsNegText(s) THEN 0 - DigitsVal(Unsigned(s)) ELSE DigitsVal(s)

\* text of the form [-]digits.digit
IsDecimalText(s) ==
    /\ Len(Unsigned(s)) >= 3
    /\ Char(s, Len(s) - 1) = "."
    /\ IsDigits(SubSeq(Unsigned(s), 1, Len(Unsigned(s)) - 2))
    /\ IsDigits(Char(s, Len(s)))

IsFloatText(s) == IsIntText(s) \/ IsDecimalText(s)

\* float(text), in tenths
ParseFloat(s) ==
    IF IsIntText(s) THEN 10 * ParseInt(s)
    ELSE LET u == Unsigned(s)
             m == 10 * DigitsVal(SubSeq(u, 1, Len(u) - 2)) + DigitVal(Char(u, Len(u)))
         IN  IF IsNegText(s) THEN 0 - m ELSE m

\* str(int)
FormatInt(n) == ToString(n)

\* repr(float) of a value given in tenths: 90 -> "9.0", -5 -> "-0.5"
FormatFloat(t) ==
    LET a == IF t < 0 THEN 0 - t ELSE t
    IN  (IF t < 0 THEN "-" ELSE "") \o ToString(a \div 10) \o "." \o ToString(a % 10)

\* str.endswith
EndsWith(s, suffix) ==
    Len(s) >= Len(suffix) /\ SubSeq(s, Len(s) - Len(suffix) + 1, Len(s)) = suffix

\* os.path.join of a directory inside OUTPUT_DIR and a file name
PathJoin(dir, name) == IF dir = "" THEN name ELSE dir \o "/" \o name

HasSep(p) == \E i \in 1..Len(p) : Char(p, i) = "/"

(***************************************************************************)
(* Values of a data frame: a value is missing (NaN) or present.            *)
(***************************************************************************)
Val(v) == [na |-> FALSE, v |-> v]
NaNum == [na |-> TRUE, v |-> 0]
NaStr == [na |-> TRUE, v |-> ""]

\* the texts pandas.read_csv reads as missing
NaTexts == {"", "NaN", "nan", "NA", "N/A", "NULL", "null", "None", "<NA>", "n/a", "#N/A"}

IndexOf(s, x) == CHOOSE i \in 1..Len(s) : s[i] = x

Contains(s, x) == \E i \in 1..Len(s) : s[i] = x

RECURSIVE Flatten(_)
Flatten(ss) == IF ss = <<>> THEN <<>> ELSE Head(ss) \o Flatten(Tail(ss))

\* the dtype pandas infers for a column from the texts of its cells
InferDtype(cells) ==
    IF Len(cells) = 0 THEN "object"
    ELSE IF \A i \in 1..Len(cells) : IsIntText(cells[i]) THEN "int64"
    ELSE IF \A i \in 1..Len(cells) : IsFloatText(cells[i]) \/ cells[i] \in NaTexts
         THEN "float64"
    ELSE "object"

ParseCell(dtype, text) ==
    CASE dtype = "int64" -> Val(ParseInt(text))
      [] dtype = "float64" -> IF text \in NaTexts THEN NaNum ELSE Val(ParseFloat(text))
      [] OTHER -> IF text \in NaTexts THEN NaStr ELSE Val(text)

\* DataFrame.to_csv writes a missing value as the empty text
FormatCell(dtype, val) ==
    IF val.na THEN ""
    ELSE CASE dtype = "int64" -> FormatInt(val.v)
           [] dtype = "float64" -> FormatFloat(val.v)
           [] OTHER -> val.v

\* str(value) of a row value, as load_to_postgres passes it to INSERT
PyStr(dtype, val) ==
    IF val.na THEN "nan"
    ELSE CASE dtype = "int64" -> FormatInt(val.v)
           [] dtype = "float64" -> FormatFloat(val.v)
           [] OTHER -> val.v

\* a CSV file: its header line and its data lines, each a sequence of cells
CsvFile(header, lines) == [header |-> header, lines |-> lines]

\* pandas.read_csv
read_csv(file) ==
    LET n == Len(file.header)
        dt == [j \in 1..n |-> InferDtype([i \in 1..Len(file.lines) |-> file.lines[i][j]])]
    IN  [columns |-> file.header,
         dtypes |-> dt,
         rows |-> [i \in 1..Len(file.lines) |->
                     [j \in 1..n |-> ParseCell(dt[j], file.lines[i][j])]]]

\* DataFrame.to_csv(path, index=False)
to_csv(df) ==
    CsvFile(df.columns,
            [i \in 1..Len(df.rows) |->
               [j \in 1..Len(df.columns) |-> FormatCell(df.dtypes[j], df.rows[i][j])]])

\* df[name] = values: replaces the column when it exists, appends it otherwise
SetColumn(df, name, dtype, values) ==
    IF Contains(df.columns, name)
    THEN LET c == IndexOf(df.columns, name)
         IN  [columns |-> df.columns,
              dtypes |-> [df.dtypes EXCEPT ![c] = dtype],
              rows |-> [i \in 1..Len(df.rows) |-> [df.rows[i] EXCEPT ![c] = values[i]]]]
    ELSE [columns |-> Append(df.columns, name),
          dtypes |-> Append(df.dtypes, dtype),
          rows |-> [i \in 1..Len(df.rows) |-> Append(df.rows[i], values[i])]]

Column(df, name) ==
    LET c == IndexOf(df.columns, name)
    IN  [i \in 1..Len(df.rows) |-> df.rows[i][c]]

(***************************************************************************)
(* The two datasets and the bodies of the file-producing tasks, as         *)
(* functions from the CSV files they read to the CSV file they write.      *)
(***************************************************************************)
movies_columns == <<"movie_id", "title", "genre", "year">>

movies_data ==
    << <<1, "Inception", "Sci-Fi", 2010>>,
       <<2, "The Dark Knight", "Action", 2008>>,
       <<3, "Interstellar", "Sci-Fi", 2014>>,
       <<4, "Tenet", "Action", 2020>>,
       <<5, "Dunkirk", "War", 2017>> >>

ratings_columns == <<"movie_id", "user_id", "rating">>

\* the ratings 9.0, 9.5, 8.8, 7.5, 8.0 in tenths
ratings_data ==
    << <<1, 101, 90>>,
       <<2, 102, 95>>,
       <<3, 103, 88>>,
       <<4, 104, 75>>,
       <<5, 105, 80>> >>

\* csv.DictWriter: writeheader, then writerows with str() of every value
movies_csv(data) ==
    CsvFile(movies_columns,
            [i \in 1..Len(data) |->
               <<FormatInt(data[i][1]), data[i][2], data[i][3], FormatInt(data[i][4])>>])

ratings_csv(data) ==
    CsvFile(ratings_columns,
            [i \in 1..Len(data) |->
               <<FormatInt(data[i][1]), FormatInt(data[i][2]), FormatFloat(data[i][3])>>])

\* Decade with the year rounded to the nearest ten instead of down
Decade_round(dtype, year) ==
    IF year.na THEN NaNum
    ELSE IF dtype = "float64" THEN Val(((year.v + 50) \div 100) * 100)
    ELSE Val(((year.v + 5) \div 10) * 10)

\* (year // 10) * 10 on one value of an int64 or float64 column
Decade(dtype, year) ==
    IF year.na THEN NaNum
    ELSE IF dtype = "float64" THEN Val((year.v \div 100) * 100)
    ELSE Val((year.v \div 10) * 10)

transform_movies_df(file) ==
    LET df == read_csv(file)
        dt == df.dtypes[IndexOf(df.columns, "year")]
        year == Column(df, "year")
    IN  to_csv(SetColumn(df, "decade", dt, [i \in 1..Len(year) |-> Decade(dt, year[i])]))

\* bins=[0, 7, 8.5, 10] in tenths, labels=["Low", "Medium", "High"]
cut_bins == <<0, 70, 85, 100>>
cut_labels == <<"Low", "Medium", "High">>

Tenths(dtype, val) == IF dtype = "int64" THEN 10 * val.v ELSE val.v

\* InBin with left-closed bins (right=False)
InBin_left(x, k) == cut_bins[k] <= x /\ x < cut_bins[k + 1]

\* the bin k with bins[k] < x <= bins[k+1]
InBin(x, k) == cut_bins[k] < x /\ x <= cut_bins[k + 1]

\* pandas.cut of one value: right-closed bins, no label outside them
cut(dtype, val) ==
    IF val.na THEN NaStr
    ELSE LET x == Tenths(dtype, val)
         IN  IF \E k \in 1..Len(cut_labels) : InBin(x, k)
             THEN Val(cut_labels[CHOOSE k \in 1..Len(cut_labels) : InBin(x, k)])
             ELSE NaStr

transform_ratings_df(file) ==
    LET df == read_csv(file)
        dt == df.dtypes[IndexOf(df.columns, "rating")]
        rating == Column(df, "rating")
    IN  to_csv(SetColumn(df, "rating_category", "object",
                         [i \in 1..Len(rating) |-> cut(dt, rating[i])]))

KeysEqual(dl, a, dr, b) ==
    IF a.na \/ b.na THEN a.na /\ b.na ELSE Tenths(dl, a) = Tenths(dr, b)

\* the sequence s without its element at position c
Without(s, c) == SubSeq(s, 1, c - 1) \o SubSeq(s, c + 1, Len(s))

\* the positions of a sequence of booleans that hold TRUE, in order
Positions(flags) ==
    LET F[i \in 0..Len(flags)] ==
          IF i = 0 THEN <<>> ELSE IF flags[i] THEN Append(F[i - 1], i) ELSE F[i - 1]
    IN  F[Len(flags)]

\* merge as a lookup: every left row is joined to its first match only
merge_first_match(left, right, key) ==
    LET cl == IndexOf(left.columns, key)
        cr == IndexOf(right.columns, key)
        Matches(i) ==
          Positions([j \in 1..Len(right.rows) |->
                       KeysEqual(left.dtypes[cl], left.rows[i][cl],
                                 right.dtypes[cr], right.rows[j][cr])])
        RowsOf(i) ==
          LET m == Matches(i)
          IN  [k \in 1..(IF Len(m) > 0 THEN 1 ELSE 0) |->
                 left.rows[i] \o Without(right.rows[m[k]], cr)]
    IN  [columns |-> left.columns \o Without(right.columns, cr),
         dtypes |-> left.dtypes \o Without(right.dtypes, cr),
         rows |-> Flatten([i \in 1..Len(left.rows) |-> RowsOf(i)])]

\* pandas.merge(left, right, on=key, how="inner"): for every left row, in
\* order, one row per right row with an equal key
merge(left, right, key) ==
    LET cl == IndexOf(left.columns, key)
        cr == IndexOf(right.columns, key)
        Matches(i) ==
          Positions([j \in 1..Len(right.rows) |->
                       KeysEqual(left.dtypes[cl], left.rows[i][cl],
                                 right.dtypes[cr], right.rows[j][cr])])
        RowsOf(i) ==
          LET m == Matches(i)
          IN  [k \in 1..Len(m) |-> left.rows[i] \o Without(right.rows[m[k]], cr)]
    IN  [columns |-> left.columns \o Without(right.columns, cr),
         dtypes |-> left.dtypes \o Without(right.dtypes, cr),
         rows |-> Flatten([i \in 1..Len(left.rows) |-> RowsOf(i)])]

merge_datasets_df(movies_file, ratings_file) ==
    to_csv(merge(read_csv(movies_file), read_csv(ratings_file), "movie_id"))

(***************************************************************************)
(* The output directory: fs maps the path of every file below OUTPUT_DIR   *)
(* (relative to it) to its content, dirs is the set of its subdirectories. *)
(***************************************************************************)
\* WriteFile with the file opened for appending
WriteFile_append(f, path, content) ==
    [q \in DOMAIN f \cup {path} |->
       IF q # path THEN f[q]
       ELSE IF path \in DOMAIN f
            THEN CsvFile(f[path].header, f[path].lines \o content.lines)
            ELSE content]

\* open(path, "w") and to_csv(path): create the file or replace its content
WriteFile(f, path, content) ==
    [q \in DOMAIN f \cup {path} |-> IF q = path THEN content ELSE f[q]]

\* os.remove of every path in gone
RemoveFiles(f, gone) == [q \in DOMAIN f \ gone |-> f[q]]

\* os.listdir(OUTPUT_DIR): the names directly inside the directory
listdir(f, d) == {q \in DOMAIN f : ~HasSep(q)} \cup d

chart_path == PathJoin("visuals", "avg_rating_by_genre.png")

\* the sum of the present values of a sequence of values
RECURSIVE SumValues(_)
SumValues(vs) ==
    IF vs = <<>> THEN 0
    ELSE (IF Head(vs).na THEN 0 ELSE Head(vs).v) + SumValues(Tail(vs))

\* df.groupby("genre")["rating"].mean(), each mean kept as total and count of
\* the ratings (in tenths) of the genre; this is what the bar chart shows
genre_avg(df) ==
    LET g == Column(df, "genre")
        dt == df.dtypes[IndexOf(df.columns, "rating")]
        r == Column(df, "rating")
        Of(x) == Positions([i \in 1..Len(g) |-> ~g[i].na /\ g[i].v = x /\ ~r[i].na])
    IN  {[genre |-> g[i].v,
          total |-> SumValues([k \in 1..Len(Of(g[i].v)) |->
                                 Val(Tenths(dt, r[Of(g[i].v)[k]]))]),
          count |-> Len(Of(g[i].v))] : i \in {i \in 1..Len(g) : ~g[i].na}}

chart(file) == [title |-> "Average Rating by Genre", bars |-> genre_avg(read_csv(file))]

(***************************************************************************)
(* The DAG: tasks, their upstream tasks, and what the scheduler does with  *)
(* them (default trigger rule, default_args["retries"]).                   *)
(***************************************************************************)
Tasks ==
    {"fetch_movies", "fetch_ratings", "transform_movies", "transform_ratings",
     "merge_datasets", "load_to_postgres", "analyze_and_visualize", "cleanup_folder"}

\* the tasks that write one CSV file
FileTasks ==
    {"fetch_movies", "fetch_ratings", "transform_movies", "transform_ratings",
     "merge_datasets"}

\* Upstream without the chain that ends in cleanup: cleanup_folder takes no
\* argument, so nothing else orders it
Upstream_unchained(t) ==
    CASE t = "transform_movies" -> {"fetch_movies"}
      [] t = "transform_ratings" -> {"fetch_ratings"}
      [] t = "merge_datasets" -> {"transform_movies", "transform_ratings"}
      [] t = "load_to_postgres" -> {"merge_datasets"}
      [] t = "analyze_and_visualize" -> {"merge_datasets"}
      [] OTHER -> {}

\* arguments passed from task to task, and the >> dependencies
Upstream(t) ==
    CASE t = "transform_movies" -> {"fetch_movies"}
      [] t = "transform_ratings" -> {"fetch_ratings"}
      [] t = "merge_datasets" -> {"transform_movies", "transform_ratings"}
      [] t = "load_to_postgres" -> {"merge_datasets"}
      [] t = "analyze_and_visualize" -> {"merge_datasets", "load_to_postgres"}
      [] t = "cleanup_folder" -> {"analyze_and_visualize"}
      [] OTHER -> {}

\* OutPath with transform_ratings writing the file of transform_movies
OutPath_clash(t) ==
    CASE t = "fetch_movies" -> PathJoin("", "movies.csv")
      [] t = "fetch_ratings" -> PathJoin("", "ratings.csv")
      [] t = "transform_movies" -> PathJoin("", "movies_transformed.csv")
      [] t = "transform_ratings" -> PathJoin("", "movies_transformed.csv")
      [] t = "merge_datasets" -> PathJoin("", "merged_movies.csv")

\* the file a file task writes
OutPath(t) ==
    CASE t = "fetch_movies" -> PathJoin("", "movies.csv")
      [] t = "fetch_ratings" -> PathJoin("", "ratings.csv")
      [] t = "transform_movies" -> PathJoin("", "movies_transformed.csv")
      [] t = "transform_ratings" -> PathJoin("", "ratings_transformed.csv")
      [] t = "merge_datasets" -> PathJoin("", "merged_movies.csv")

\* the paths a task receives from its upstream tasks and reads
InPaths(t, x) ==
    CASE t = "transform_movies" -> {x["fetch_movies"]}
      [] t = "transform_ratings" -> {x["fetch_ratings"]}
      [] t = "merge_datasets" -> {x["transform_movies"], x["transform_ratings"]}
      [] t = "load_to_postgres" -> {x["merge_datasets"]}
      [] t = "analyze_and_visualize" -> {x["merge_datasets"]}
      [] OTHER -> {}

\* the content a file task writes, given the files f and the passed paths x
TaskOutput(t, f, x) ==
    CASE t = "fetch_movies" -> movies_csv(movies_data)
      [] t = "fetch_ratings" -> ratings_csv(ratings_data)
      [] t = "transform_movies" -> transform_movies_df(f[x["fetch_movies"]])
      [] t = "transform_ratings" -> transform_ratings_df(f[x["fetch_ratings"]])
      [] t = "merge_datasets" ->
           merge_datasets_df(f[x["transform_movies"]], f[x["transform_ratings"]])

\* one complete execution of a file task on the files f
TaskEffect(t, f, x) == WriteFile(f, OutPath(t), TaskOutput(t, f, x))

\* the scheduler starts an attempt of t: all upstream tasks succeeded
Runnable(t) ==
    /\ state[t] \in {"none", "up_for_retry"}
    /\ \A u \in Upstream(t) : state[u] = "success"

Succeeds(t, ret) ==
    /\ state' = [state EXCEPT ![t] = "success"]
    /\ tries' = [tries EXCEPT ![t] = @ + 1]
    /\ xcom' = [xcom EXCEPT ![t] = ret]

\* a failed attempt is retried default_args["retries"] times
Fails(t) ==
    /\ state' = [state EXCEPT ![t] = IF tries[t] + 1 > retries THEN "failed"
                                      ELSE "up_for_retry"]
    /\ tries' = [tries EXCEPT ![t] = @ + 1]
    /\ UNCHANGED xcom

\* an attempt of a file task that completes
RunFileTask(t) ==
    /\ InPaths(t, xcom) \subseteq DOMAIN fs
    /\ fs' = TaskEffect(t, fs, xcom)
    /\ created' = created \cup {OutPath(t)}
    /\ Succeeds(t, OutPath(t))
    /\ UNCHANGED <<dirs, load_result, db, fault, run>>

fetch_movies ==
    /\ Runnable("fetch_movies")
    /\ RunFileTask("fetch_movies")

fetch_ratings ==
    /\ Runnable("fetch_ratings")
    /\ RunFileTask("fetch_ratings")

transform_movies ==
    /\ Runnable("transform_movies")
    /\ RunFileTask("transform_movies")

transform_ratings ==
    /\ Runnable("transform_ratings")
    /\ RunFileTask("transform_ratings")

merge_datasets ==
    /\ Runnable("merge_datasets")
    /\ RunFileTask("merge_datasets")

(***************************************************************************)
(* The database: whether the schema and the table exist, and the committed *)
(* rows of week9_movies.movies_final.                                      *)
(***************************************************************************)
EmptyDb == [schema |-> FALSE, table |-> FALSE, columns |-> <<>>, rows |-> <<>>]

\* the statements of one load, in the order the cursor executes them
Statements(df) ==
    << [op |-> "create_schema", columns |-> <<>>, row |-> <<>>],
       [op |-> "create_table", columns |-> df.columns, row |-> <<>>] >>
    \o [i \in 1..Len(df.rows) |->
          [op |-> "insert", columns |-> df.columns,
           row |-> [j \in 1..Len(df.columns) |-> PyStr(df.dtypes[j], df.rows[i][j])]]]

\* cur.execute of one statement
Execute(d, st) ==
    CASE st.op = "create_schema" -> [d EXCEPT !.schema = TRUE]
      [] st.op = "create_table" ->
           IF d.table THEN d ELSE [d EXCEPT !.table = TRUE, !.columns = st.columns]
      [] st.op = "insert" -> [d EXCEPT !.rows = Append(@, st.row)]

RECURSIVE ExecuteAll(_, _)
ExecuteAll(d, sts) ==
    IF sts = <<>> THEN d ELSE ExecuteAll(Execute(d, Head(sts)), Tail(sts))

\* where an attempt of the load can break: opening the connection, a
\* statement, the commit, or closing the connection after the commit;
\* "none" is an attempt that completes
Faults == {"none", "connect", "read_csv", "execute", "commit", "close"}

\* the numbers of statements that can have been executed when the fault occurs
Executed(flt, n) ==
    CASE flt \in {"connect", "read_csv"} -> {0}
      [] flt = "execute" -> 0..(n - 1)
      [] OTHER -> {n}

\* Transaction on a connection in autocommit mode
Transaction_autocommit(d, sts, flt, k) == ExecuteAll(d, SubSeq(sts, 1, k))

\* the committed database after the statements run in one transaction with a
\* single commit after the last one; work that is not committed is rolled
\* back when the connection is dropped
Transaction(d, sts, flt, k) ==
    IF flt \in {"none", "close"} THEN ExecuteAll(d, SubSeq(sts, 1, k)) ELSE d

\* an attempt of the load; read_csv raises when the file does not exist
load_to_postgres ==
    /\ Runnable("load_to_postgres")
    /\ IF InPaths("load_to_postgres", xcom) \subseteq DOMAIN fs
       THEN LET df == read_csv(fs[xcom["merge_datasets"]])
                sts == Statements(df)
            IN  \E flt \in Faults \ {"read_csv"} : \E k \in Executed(flt, Len(sts)) :
                  /\ db' = Transaction(db, sts, flt, k)
                  /\ fault' = flt
                  /\ IF flt = "none"
                     THEN /\ Succeeds("load_to_postgres", "")
                          /\ load_result' = Len(df.rows)
                     ELSE /\ Fails("load_to_postgres")
                          /\ UNCHANGED load_result
       ELSE /\ fault' \in {"connect", "read_csv"}
            /\ Fails("load_to_postgres")
            /\ UNCHANGED <<db, load_result>>
    /\ UNCHANGED <<fs, dirs, created, run>>

analyze_and_visualize ==
    /\ Runnable("analyze_and_visualize")
    /\ InPaths("analyze_and_visualize", xcom) \subseteq DOMAIN fs
    /\ dirs' = dirs \cup {"visuals"}
    /\ fs' = WriteFile(fs, chart_path, chart(fs[xcom["merge_datasets"]]))
    /\ created' = created \cup {chart_path}
    /\ Succeeds("analyze_and_visualize", chart_path)
    /\ UNCHANGED <<load_result, db, fault, run>>

\* CsvEntries without the test of the name: every file of the folder
CsvEntries_any(f, d) == listdir(f, d) \ d

\* CsvEntries with the suffix in capitals
CsvEntries_upper(f, d) == {q \in listdir(f, d) : EndsWith(q, ".CSV")}

\* the entries of the folder that cleanup_folder removes
CsvEntries(f, d) == {q \in listdir(f, d) : EndsWith(q, ".csv")}

cleanup_folder ==
    /\ Runnable("cleanup_folder")
    /\ CsvEntries(fs, dirs) \cap dirs = {}
    /\ fs' = RemoveFiles(fs, CsvEntries(fs, dirs))
    /\ Succeeds("cleanup_folder", "")
    /\ UNCHANGED <<dirs, load_result, db, fault, created, run>>

(***************************************************************************)
(* Failed attempts of the tasks that work on files, and the scheduler.     *)
(***************************************************************************)
\* what an interrupted write leaves of a file: nothing, or all lines but the
\* last
Partial(c) ==
    {CsvFile(<<>>, <<>>)}
    \cup (IF c.lines = <<>> THEN {}
          ELSE {CsvFile(c.header, SubSeq(c.lines, 1, Len(c.lines) - 1))})

\* the files after an attempt of t that raised, and whether it wrote its file
FailedEffects(t) ==
    IF t \in FileTasks
    THEN {[files |-> fs, wrote |-> {}]}
         \cup (IF InPaths(t, xcom) \subseteq DOMAIN fs
               THEN {[files |-> WriteFile(fs, OutPath(t), c), wrote |-> {OutPath(t)}] :
                       c \in Partial(TaskOutput(t, fs, xcom))}
               ELSE {})
    ELSE IF t = "cleanup_folder"
    THEN {[files |-> RemoveFiles(fs, gone), wrote |-> {}] :
            gone \in (SUBSET (CsvEntries(fs, dirs) \ dirs))
                     \ (IF CsvEntries(fs, dirs) \cap dirs = {}
                        THEN {CsvEntries(fs, dirs)} ELSE {})}
    ELSE {[files |-> fs, wrote |-> {}]}

AttemptFails(t) ==
    /\ t \in FileTasks \cup {"analyze_and_visualize", "cleanup_folder"}
    /\ Runnable(t)
    /\ \E e \in FailedEffects(t) :
         /\ fs' = e.files
         /\ created' = created \cup e.wrote
    /\ dirs' \in (IF t = "analyze_and_visualize" /\ InPaths(t, xcom) \subseteq DOMAIN fs
                  THEN {dirs, dirs \cup {"visuals"}} ELSE {dirs})
    /\ Fails(t)
    /\ UNCHANGED <<load_result, db, fault, run>>

\* all tasks that t transitively depends on
RECURSIVE Ancestors(_)
Ancestors(t) == Upstream(t) \cup UNION {Ancestors(u) : u \in Upstream(t)}

\* a task that never starts because a task it depends on failed: the
\* scheduler gives it the state upstream_failed
UpstreamFailed(t) == state[t] = "none" /\ \E u \in Ancestors(t) : state[u] = "failed"

\* the run has ended: every task is in a terminal state
RunEnded == \A t \in Tasks : state[t] \in {"success", "failed"} \/ UpstreamFailed(t)

\* the DAG is triggered again after its run ended; the directory and the
\* database are what the earlier runs left
TriggerDagRun ==
    /\ RunEnded
    /\ run < MaxRuns
    /\ run' = run + 1
    /\ state' = [t \in Tasks |-> "none"]
    /\ tries' = [t \in Tasks |-> 0]
    /\ xcom' = [t \in Tasks |-> ""]
    /\ load_result' = -1
    /\ fault' = "none"
    /\ created' = {}
    /\ UNCHANGED <<fs, dirs, db>>

\* files that are in the directory before the first run and are not the
\* pipeline's
ForeignFiles ==
    [q \in {"notes.txt", "old_export.csv"} |->
       IF q = "notes.txt" THEN CsvFile(<<"notes">>, <<>>) ELSE CsvFile(<<"id">>, << <<"1">> >>)]

\* fs as a function with the given files
Files(f, present) == [q \in present |-> f[q]]

Init ==
    /\ fs = Files(ForeignFiles, DOMAIN ForeignFiles)
    /\ dirs = {}
    /\ state = [t \in Tasks |-> "none"]
    /\ tries = [t \in Tasks |-> 0]
    /\ xcom = [t \in Tasks |-> ""]
    /\ load_result = -1
    /\ db = EmptyDb
    /\ fault = "none"
    /\ created = {}
    /\ run = 1

Next ==
    \/ fetch_movies
    \/ fetch_ratings
    \/ transform_movies
    \/ transform_ratings
    \/ merge_datasets
    \/ load_to_postgres
    \/ analyze_and_visualize
    \/ cleanup_folder
    \/ \E t \in Tasks : AttemptFails(t)
    \/ TriggerDagRun

Spec == Init /\ [][Next]_vars

(***************************************************************************)
(* The transforms and the merge on arbitrary inputs: the directory holds   *)
(* a movies CSV and a ratings CSV of any rows of the two domains, written  *)
(* as the fetch tasks write them, and the three tasks run on them.         *)
(***************************************************************************)
MovieRows ==
    {<<1, "Inception", "Sci-Fi", 2010>>, <<2, "The Dark Knight", "Action", 2008>>,
     <<3, "Cleopatra", "War", -44>>, <<5, "Dunkirk", "War", 2017>>}

\* ratings on, next to and outside the edges of the bins
RatingRows ==
    {<<1, 101, 70>>, <<1, 102, 71>>, <<2, 101, 85>>, <<2, 102, 86>>,
     <<3, 101, 100>>, <<3, 102, 101>>, <<4, 101, 0>>, <<4, 102, -10>>}

SeqsUpTo(S, n) == UNION {[1..k -> S] : k \in 1..n}

PassedPaths == [t \in Tasks |-> IF t \in FileTasks THEN OutPath(t) ELSE ""]

Fetched == {"fetch_movies", "fetch_ratings"}

TransformInit ==
    /\ \E ms \in SeqsUpTo(MovieRows, MaxMovies) : \E rs \in SeqsUpTo(RatingRows, MaxRatings) :
         fs = WriteFile(WriteFile(Files(ForeignFiles, {}), OutPath("fetch_movies"), movies_csv(ms)),
                        OutPath("fetch_ratings"), ratings_csv(rs))
    /\ dirs = {}
    /\ state = [t \in Tasks |-> IF t \in Fetched THEN "success" ELSE "none"]
    /\ tries = [t \in Tasks |-> IF t \in Fetched THEN 1 ELSE 0]
    /\ xcom = [t \in Tasks |-> IF t \in Fetched THEN OutPath(t) ELSE ""]
    /\ load_result = -1
    /\ db = EmptyDb
    /\ fault = "none"
    /\ created = {OutPath(t) : t \in Fetched}
    /\ run = 1

TransformNext ==
    \/ transform_movies
    \/ transform_ratings
    \/ merge_datasets

TransformSpec == TransformInit /\ [][TransformNext]_vars

(***************************************************************************)
(* Properties.                                                             *)
(***************************************************************************)
PipelineCsv == {OutPath(t) : t \in FileTasks}

TopLevelCsv(q) == ~HasSep(q) /\ EndsWith(q, ".csv")

Attempted(t) == tries'[t] = tries[t] + 1

AllSucceeded == \A t \in Tasks : state[t] = "success"

\* the files after the four branch tasks ran one after the other in an empty
\* directory
SequentialFiles ==
    TaskEffect("transform_ratings",
      TaskEffect("fetch_ratings",
        TaskEffect("transform_movies",
          TaskEffect("fetch_movies", Files(ForeignFiles, {}), PassedPaths),
          PassedPaths),
        PassedPaths),
      PassedPaths)

\* the merged CSV of that execution
SequentialMerged == TaskOutput("merge_datasets", SequentialFiles, PassedPaths)

\* C1: when cleanup_folder completes, every file directly inside the output
\* directory whose name ends in ".csv" is gone, every other file, the chart
\* visuals/avg_rating_by_genre.png among them, is still there with the same
\* content, and no file or directory has appeared.
C1_CleanupFrame ==
    [][(state["cleanup_folder"] # "success" /\ state'["cleanup_folder"] = "success") =>
         /\ \A q \in DOMAIN fs : TopLevelCsv(q) => q \notin DOMAIN fs'
         /\ \A q \in DOMAIN fs : ~TopLevelCsv(q) => (q \in DOMAIN fs' /\ fs'[q] = fs[q])
         /\ DOMAIN fs' \subseteq DOMAIN fs
         /\ dirs' = dirs
         /\ (PipelineCsv \cup {"old_export.csv"}) \cap DOMAIN fs' = {}
         /\ chart_path \in DOMAIN fs
         /\ chart_path \in DOMAIN fs'
         /\ fs'[chart_path] = fs[chart_path]]_vars

C1_Witness ==
    /\ state["cleanup_folder"] = "success"
    /\ chart_path \in DOMAIN fs
    /\ fs[chart_path] = chart(SequentialMerged)
    /\ "notes.txt" \in DOMAIN fs
    /\ "visuals" \in dirs
    /\ \A q \in DOMAIN fs : ~TopLevelCsv(q)

\* C2: whenever load_to_postgres has completed successfully, the table
\* week9_movies.movies_final has as many rows as the merged CSV, which is the
\* value the task returned.
C2_TableCountIsMergedCount ==
    state["load_to_postgres"] = "success" =>
      /\ Len(db.rows) = load_result
      /\ OutPath("merge_datasets") \in DOMAIN fs =>
           load_result = Len(fs[OutPath("merge_datasets")].lines)

\* C3: the merged CSV has exactly one row per pair of a movie row and a rating
\* row with equal movie_id, the movie row followed by the rating row without
\* its movie_id: as many rows as there are such pairs, every merged row is the
\* row of a pair, and every row of a pair is there as often as pairs have it.
C3_InnerJoin ==
    state["merge_datasets"] = "success" =>
      LET M == fs[OutPath("transform_movies")].lines
          R == fs[OutPath("transform_ratings")].lines
          G == fs[OutPath("merge_datasets")].lines
          Pairs == {p \in (1..Len(M)) \X (1..Len(R)) :
                      ParseInt(M[p[1]][1]) = ParseInt(R[p[2]][1])}
          Joined(p) == M[p[1]] \o Tail(R[p[2]])
      IN  /\ Len(G) = Cardinality(Pairs)
          /\ \A k \in 1..Len(G) : \E p \in Pairs : G[k] = Joined(p)
          /\ \A p \in Pairs :
               Cardinality({k \in 1..Len(G) : G[k] = Joined(p)})
                 = Cardinality({q \in Pairs : Joined(q) = Joined(p)})
          /\ \A id \in {ParseInt(M[i][1]) : i \in 1..Len(M)} \cup {ParseInt(R[j][1]) : j \in 1..Len(R)} :
               Cardinality({k \in 1..Len(G) : ParseInt(G[k][1]) = id})
                 = Cardinality({i \in 1..Len(M) : ParseInt(M[i][1]) = id})
                   * Cardinality({j \in 1..Len(R) : ParseInt(R[j][1]) = id})

\* a movie_id that is twice in movies and twice in ratings gives four rows
C3_Witness ==
    /\ state["merge_datasets"] = "success"
    /\ Len(fs[OutPath("transform_movies")].lines) = 2
    /\ Len(fs[OutPath("transform_ratings")].lines) = 2
    /\ Len(fs[OutPath("merge_datasets")].lines) = 4

\* C4: movies_transformed.csv has the rows of the input CSV in the same
\* order with the original columns unchanged, plus the column decade, which
\* is in every row the largest multiple of 10 not exceeding year.
C4_Decade ==
    state["transform_movies"] = "success" =>
      LET in == fs[OutPath("fetch_movies")]
          out == fs[OutPath("transform_movies")]
      IN  /\ out.header = Append(in.header, "decade")
          /\ Len(out.lines) = Len(in.lines)
          /\ \A i \in 1..Len(in.lines) :
               /\ SubSeq(out.lines[i], 1, Len(in.header)) = in.lines[i]
               /\ Len(out.lines[i]) = Len(in.header) + 1
               /\ IsIntText(out.lines[i][5])
               /\ LET year == ParseInt(in.lines[i][4])
                      decade == ParseInt(out.lines[i][5])
                  IN  /\ decade % 10 = 0
                      /\ decade <= year
                      /\ year < decade + 10

\* a year before 0 and a year that is not a multiple of 10
C4_Witness ==
    /\ state["transform_movies"] = "success"
    /\ \E i \in DOMAIN fs[OutPath("transform_movies")].lines :
         fs[OutPath("transform_movies")].lines[i][4] = "-44"
         /\ fs[OutPath("transform_movies")].lines[i][5] = "-50"
    /\ \E i \in DOMAIN fs[OutPath("transform_movies")].lines :
         fs[OutPath("transform_movies")].lines[i][4] = "2017"
         /\ fs[OutPath("transform_movies")].lines[i][5] = "2010"

\* C5: ratings_transformed.csv has the rows of the input CSV in the same
\* order, none dropped, plus the column rating_category: Low for
\* 0 < rating <= 7, Medium for 7 < rating <= 8.5, High for 8.5 < rating <= 10,
\* empty for rating <= 0 or rating > 10.
C5_RatingCategory ==
    state["transform_ratings"] = "success" =>
      LET in == fs[OutPath("fetch_ratings")]
          out == fs[OutPath("transform_ratings")]
      IN  /\ out.header = Append(in.header, "rating_category")
          /\ Len(out.lines) = Len(in.lines)
          /\ \A i \in 1..Len(in.lines) :
               /\ SubSeq(out.lines[i], 1, Len(in.header)) = in.lines[i]
               /\ Len(out.lines[i]) = Len(in.header) + 1
               /\ LET rating == ParseFloat(in.lines[i][3])
                      category == out.lines[i][4]
                  IN  /\ (0 < rating /\ rating <= 70) => category = "Low"
                      /\ (70 < rating /\ rating <= 85) => category = "Medium"
                      /\ (85 < rating /\ rating <= 100) => category = "High"
                      /\ (rating <= 0 \/ rating > 100) => category = ""

\* a rating on the edge of a bin and a rating outside all bins
C5_Witness ==
    /\ state["transform_ratings"] = "success"
    /\ \E i \in DOMAIN fs[OutPath("transform_ratings")].lines :
         fs[OutPath("transform_ratings")].lines[i][3] = "8.5"
         /\ fs[OutPath("transform_ratings")].lines[i][4] = "Medium"
    /\ \E i \in DOMAIN fs[OutPath("transform_ratings")].lines :
         fs[OutPath("transform_ratings")].lines[i][3] = "10.1"
         /\ fs[OutPath("transform_ratings")].lines[i][4] = ""

\* the tasks that must have succeeded before an attempt of a task starts
MustPrecede(t) ==
    CASE t = "transform_movies" -> {"fetch_movies"}
      [] t = "transform_ratings" -> {"fetch_ratings"}
      [] t = "merge_datasets" ->
           {"fetch_movies", "fetch_ratings", "transform_movies", "transform_ratings"}
      [] t = "load_to_postgres" -> FileTasks
      [] t = "analyze_and_visualize" -> FileTasks \cup {"load_to_postgres"}
      [] t = "cleanup_folder" -> Tasks \ {"cleanup_folder"}
      [] OTHER -> {}

\* the CSV files a task reads
MustRead(t) ==
    CASE t = "transform_movies" -> {"movies.csv"}
      [] t = "transform_ratings" -> {"ratings.csv"}
      [] t = "merge_datasets" -> {"movies_transformed.csv", "ratings_transformed.csv"}
      [] t = "load_to_postgres" -> {"merged_movies.csv"}
      [] t = "analyze_and_visualize" -> {"merged_movies.csv"}
      [] OTHER -> {}

\* C6: an attempt of a task runs only when the tasks of all earlier stages
\* that it depends on have succeeded in this run (transform after its fetch,
\* merge after both transforms, load after merge, visualize after load,
\* cleanup after visualize), and every CSV file it reads is then in the
\* directory, written by this run.
C6_StageOrder ==
    [][\A t \in Tasks : Attempted(t) =>
         /\ \A u \in MustPrecede(t) : state[u] = "success"
         /\ MustRead(t) \subseteq DOMAIN fs
         /\ MustRead(t) \subseteq created]_vars

\* a run in which every task succeeded, one of them on its second attempt
C6_Witness ==
    /\ AllSucceeded
    /\ tries["cleanup_folder"] = 1
    /\ \E t \in Tasks : tries[t] = 2

MoviesBranch == {"fetch_movies", "transform_movies"}
RatingsBranch == {"fetch_ratings", "transform_ratings"}

\* C8: the two branches write disjoint files and neither reads a file of the
\* other, and however their four tasks interleave, the four files that
\* merge_datasets finds, and the merged CSV, are the same.
C8_BranchesIndependent ==
    /\ {OutPath(t) : t \in MoviesBranch} \cap {OutPath(t) : t \in RatingsBranch} = {}
    /\ \A t \in MoviesBranch : InPaths(t, PassedPaths) \cap {OutPath(u) : u \in RatingsBranch} = {}
    /\ \A t \in RatingsBranch : InPaths(t, PassedPaths) \cap {OutPath(u) : u \in MoviesBranch} = {}
    /\ (state["transform_movies"] = "success" /\ state["transform_ratings"] = "success"
          /\ tries["cleanup_folder"] = 0) =>
         /\ \A t \in MoviesBranch \cup RatingsBranch :
              OutPath(t) \in DOMAIN fs /\ fs[OutPath(t)] = SequentialFiles[OutPath(t)]
         /\ state["merge_datasets"] = "success" =>
              fs[OutPath("merge_datasets")] = SequentialMerged

\* merge has run after a ratings branch that needed a second attempt for both
\* of its tasks while the movies branch needed none
C8_Witness ==
    /\ state["merge_datasets"] = "success"
    /\ tries["cleanup_folder"] = 0
    /\ \A t \in RatingsBranch : tries[t] = 2
    /\ \A t \in MoviesBranch : tries[t] = 1
    /\ Len(fs[OutPath("merge_datasets")].lines) = 5

\* C9: an attempt of load_to_postgres that fails before the commit leaves the
\* committed database as it was, and the committed table only ever changes by
\* all rows of the merged CSV at once.
C9_AllOrNothing ==
    [][/\ (Attempted("load_to_postgres") /\ fault' \in {"connect", "read_csv", "execute"})
            => db' = db
       /\ db' # db =>
            /\ Attempted("load_to_postgres")
            /\ fault' \in {"none", "close"}
            /\ db'.schema /\ db'.table
            /\ Len(db'.rows) = Len(db.rows) + Len(fs[OutPath("merge_datasets")].lines)
            /\ SubSeq(db'.rows, 1, Len(db.rows)) = db.rows]_vars

\* the first load broke at a statement: no schema, no table, no row
C9_Witness ==
    /\ fault = "execute"
    /\ tries["load_to_postgres"] = 1
    /\ state["load_to_postgres"] = "up_for_retry"
    /\ db = EmptyDb

\* C10: whenever the scheduler can run or re-run a file task (its upstream
\* tasks succeeded and their files are in place), running it twice in a row
\* gives the directory that running it once gives, running it changes no file
\* but the one it writes, and re-running a task that succeeded changes nothing.
C10_Idempotent ==
    \A t \in FileTasks :
      ((\A u \in Upstream(t) : state[u] = "success") /\ tries["cleanup_folder"] = 0) =>
        LET once == TaskEffect(t, fs, PassedPaths)
            twice == TaskEffect(t, once, PassedPaths)
        IN  /\ twice = once
            /\ DOMAIN once = DOMAIN fs \cup {OutPath(t)}
            /\ \A q \in DOMAIN fs \ {OutPath(t)} : once[q] = fs[q]
            /\ (state[t] = "success" /\ tries["cleanup_folder"] = 0) => once = fs

\* a task succeeded on the retry after an attempt that left a partial file
C10_Witness ==
    /\ state["merge_datasets"] = "success"
    /\ tries["merge_datasets"] = 2
    /\ state["transform_movies"] = "success"
    /\ tries["transform_movies"] = 2
    /\ tries["cleanup_folder"] = 0

====
